---- MODULE Spec2Model ----
(***************************************************************************)
(* Model of the LLM review scripts under .github/scripts:                  *)
(*   core_review.py, laozhang_codebase_review.py   (free-text flows)       *)
(*   core_review_v3.py, review_standalone.py       (structured flows)      *)
(*   laozhang_review.py                            (PR diff flow)          *)
(* Strings are TLA+ strings where only their length and concatenation      *)
(* matter (the Content Budgeter); the model's reply is a sequence of       *)
(* symbols where the code scans it (the Response Extractor).               *)
(* In budgeter strings the character ~ stands for the backtick, which the  *)
(* TLA+ lexer does not accept inside a string; the lengths are unchanged.  *)
(***************************************************************************)
EXTENDS Integers, Sequences, FiniteSets, TLC

VARIABLES
    flow,       \* the script whose operation is running
    pc,         \* position of the running operation
    globbed,    \* what root.glob yields for each pattern, in order
    files,      \* list of (path, content) handed to the Content Budgeter
    max_size,   \* the byte budget handed to the Content Budgeter
    parts,      \* the budgeter's list `parts`: <<[kind, text], ...>>
    output,     \* the string the budgeter returned
    attempt,    \* the loop variable of the retry loop
    calls,      \* number of client.chat.completions.create calls made
    sleeps,     \* the arguments of the time.sleep calls made, in order
    outcomes,   \* what each attempt ended in: <<[kind, err], ...>>
    raised,     \* the exception the Model Caller let out, "none" if none
    raw,        \* the reply text of the last successful transport call
    review,     \* the value the Model Caller returned
    published,  \* what was handed to the publisher or printed, in order
    env,        \* the environment variables: "absent", "empty" or "set"
    diff,       \* the diff get_pr_diff fetched, "none" before it ran
    root,       \* the parts of the Path main hands to the collector
    prompt,     \* the local `prompt` of the running review function
    call_content, \* the parameter `content` (`diff`) of the review function
    sent        \* the user message of every transport call made, in order

budgetVars == <<globbed, files, max_size, parts, output>>
retryVars == <<attempt, calls, sleeps, outcomes, raised>>
replyVars == <<raw, review, published>>

mainVars == <<env, diff, root>>
callVars == <<prompt, call_content, sent>>
vars == <<flow, pc, budgetVars, retryVars, replyVars, mainVars, callVars>>

\* The value of the parameter `content`: the string the caller passed, or,
\* once core_review_v3.review_code has assigned to it, a piece of a reply.
NoContent == [src |-> "none", text |-> "", syms |-> <<>>]
Argument(s) == [src |-> "argument", text |-> s, syms |-> <<>>]
FromReply(t) == [src |-> "reply", text |-> "", syms |-> t]

\* prompt = REVIEW_PROMPT.format(content=content): the template with the
\* value of content filled in
REVIEW_PROMPT_format(c) == [template |-> "REVIEW_PROMPT", content |-> c]

\* Path("."): no parts, and what root.glob yields is a relative path
RelativeRoot == <<>>

\* no review function is running
NoCall ==
    /\ prompt = [template |-> "none", content |-> NoContent]
    /\ call_content = NoContent
    /\ sent = <<>>

\* the first line of a review function called with the argument arg
EnterReviewCode(arg) ==
    /\ call_content' = Argument(arg)
    /\ prompt' = REVIEW_PROMPT_format(call_content')
    /\ UNCHANGED sent

(***************************************************************************)
(* Bounds of the model.                                                    *)
(***************************************************************************)
MaxFiles == 3
MaxImprovements == 2
MaxRawLen == 3
MaxTitleLen == 2
MaxGlob == 2
MaxRenderItems == 4
MaxPieces == 3

(***************************************************************************)
(* The environment main reads.                                             *)
(***************************************************************************)
EnvVars == {"GITHUB_TOKEN", "OPENAI_API_KEY", "GITHUB_REPOSITORY", "PR_NUMBER"}

\* the environment of an invocation that got past main's validation
StageEnv == [v \in EnvVars |-> "set"]

(***************************************************************************)
(* Files.  The paths are listed in Python's string order (code points:     *)
(* "-" is 45 and "/" is 47, so "src-tauri/..." sorts before "src/...").    *)
(***************************************************************************)
PathOrder == <<"a.ts", "b.ts", "src-tauri/src/commands/run.rs", "src/cfg.json">>

Paths == {PathOrder[i] : i \in 1..Len(PathOrder)}

PathRank(p) == CHOOSE i \in 1..Len(PathOrder) : PathOrder[i] = p

\* the order `sort(key=lambda x: x[0])` compares paths with
PathLt(p, q) == PathRank(p) < PathRank(q)

\* Path(path).suffix.lstrip(".")
Ext(p) ==
    CASE p = "a.ts" -> "ts"
      [] p = "b.ts" -> "ts"
      [] p = "src-tauri/src/commands/run.rs" -> "rs"
      [] p = "src/cfg.json" -> "json"

\* `needle in path` for the needles format_files tests
PathContains(p, needle) ==
    CASE p = "src-tauri/src/commands/run.rs" -> needle \in {"commands", "src-tauri"}
      [] OTHER -> FALSE

Contents == {"X", "let y = 1;\nlet z = 2;\n"}

\* len(content.splitlines())
SplitLinesCount(c) == IF c = "X" THEN 1 ELSE 2

FileSet == [path : Paths, content : Contents]

\* lists of files with pairwise distinct paths, 1..MaxFiles long
FileLists ==
    { fs \in UNION { [1..n -> FileSet] : n \in 1..MaxFiles } :
        \A i, j \in 1..Len(fs) : i # j => fs[i].path # fs[j].path }

IsSortedByPath(fs) ==
    \A i \in 1..(Len(fs) - 1) : ~PathLt(fs[i + 1].path, fs[i].path)

\* list.sort(key=lambda x: x[0]): stable, by path only
RECURSIVE InsertByPath(_, _)
InsertByPath(f, sorted) ==
    IF sorted = <<>> THEN <<f>>
    ELSE IF PathLt(f.path, Head(sorted).path) THEN <<f>> \o sorted
    ELSE <<Head(sorted)>> \o InsertByPath(f, Tail(sorted))

\* a sort that leaves the list as it came
SortByPathKeepsOrder(fs) == fs

RECURSIVE SortByPath(_)
SortByPath(fs) ==
    IF fs = <<>> THEN <<>>
    ELSE InsertByPath(fs[Len(fs)], SortByPath(SubSeq(fs, 1, Len(fs) - 1)))

RECURSIVE Join(_)
Join(ps) == IF ps = <<>> THEN "" ELSE Head(ps).text \o Join(Tail(ps))

(***************************************************************************)
(* Content Budgeter, plain rendering:                                      *)
(* core_review.format_files and laozhang_codebase_review.format_codebase.  *)
(***************************************************************************)
PlainFlows == {"core_review", "codebase_review"}
AnnotatedFlows == {"core_review_v3", "review_standalone"}

\* {"ts": "typescript", "tsx": "tsx", "rs": "rust"}.get(ext.lstrip("."), "")
LangCore(ext) ==
    CASE ext = "ts" -> "typescript"
      [] ext = "tsx" -> "tsx"
      [] ext = "rs" -> "rust"
      [] OTHER -> ""

\* file_block of core_review.format_files
CoreBlock(f) ==
    "### " \o f.path \o "\n~~~" \o LangCore(Ext(f.path)) \o "\n" \o f.content \o "\n~~~\n\n"

\* file_block of format_codebase
CodebaseBlock(f) ==
    "### " \o f.path \o "\n~~~\n" \o f.content \o "\n~~~\n\n"

PlainBlock(fl, f) == IF fl = "core_review" THEN CoreBlock(f) ELSE CodebaseBlock(f)

\* f"\n... (truncated: {remaining} more files)"
PlainMarker(remaining) == "\n... (truncated: " \o ToString(remaining) \o " more files)"

\* PlainLoop with `continue` where the code has `break`: a file that does
\* not fit is skipped and later, smaller files are still embedded
RECURSIVE PlainLoopSkipsUnfit(_, _, _, _, _, _)
PlainLoopSkipsUnfit(fl, fs, i, ps, current_size, max) ==
    IF i > Len(fs) THEN ps
    ELSE LET file_block == PlainBlock(fl, fs[i])
             block_size == Len(file_block)
         IN  IF current_size + block_size > max
             THEN PlainLoopSkipsUnfit(fl, fs, i + 1, ps, current_size, max)
             ELSE PlainLoopSkipsUnfit(fl, fs, i + 1,
                            Append(ps, [kind |-> "block", text |-> file_block]),
                            current_size + block_size, max)

\* the for loop of the plain format functions, from file number i on
RECURSIVE PlainLoop(_, _, _, _, _, _)
PlainLoop(fl, fs, i, ps, current_size, max) ==
    IF i > Len(fs) THEN ps
    ELSE LET file_block == PlainBlock(fl, fs[i])
             block_size == Len(file_block)
         IN  IF current_size + block_size > max
             THEN Append(ps, [kind |-> "marker",
                              text |-> PlainMarker(Len(fs) - Len(ps))])
             ELSE PlainLoop(fl, fs, i + 1,
                            Append(ps, [kind |-> "block", text |-> file_block]),
                            current_size + block_size, max)

\* core_review.format_files(files, max_size): the list `parts`
format_files_core(fs, max) == PlainLoop("core_review", SortByPath(fs), 1, <<>>, 0, max)

\* laozhang_codebase_review.format_codebase(files, max_size): the list `parts`
format_codebase(fs, max) == PlainLoop("codebase_review", SortByPath(fs), 1, <<>>, 0, max)

(***************************************************************************)
(* Content Budgeter, annotated rendering:                                  *)
(* core_review_v3.format_files and review_standalone.format_files.         *)
(***************************************************************************)
LangV3(ext) ==
    CASE ext = "ts" -> "typescript"
      [] ext = "tsx" -> "tsx"
      [] ext = "rs" -> "rust"
      [] ext = "mjs" -> "javascript"
      [] ext = "js" -> "javascript"
      [] OTHER -> ext

LangStandalone(ext) == IF ext = "py" THEN "python" ELSE LangV3(ext)

AnnotatedLang(fl, ext) == IF fl = "core_review_v3" THEN LangV3(ext) ELSE LangStandalone(ext)

\* the if/elif chain of core_review_v3.format_files
Component(path) ==
    IF PathContains(path, "commands") THEN "backend-command"
    ELSE IF PathContains(path, "src-tauri") /\ Ext(path) = "rs" THEN "backend-core"
    ELSE IF PathContains(path, "src-tauri") /\ Ext(path) \in {"mjs", "js"} THEN "bridge"
    ELSE IF PathContains(path, "components") THEN "frontend-component"
    ELSE IF PathContains(path, "hooks") THEN "frontend-hook"
    ELSE IF PathContains(path, "stores") THEN "frontend-store"
    ELSE "frontend-core"

ManifestLine(fl, f, idx) ==
    "  <file index=\"" \o ToString(idx) \o "\" path=\"" \o f.path
        \o "\" lang=\"" \o AnnotatedLang(fl, Ext(f.path))
        \o "\" lines=\"" \o ToString(SplitLinesCount(f.content)) \o "\" />"

RECURSIVE ManifestLines(_, _, _)
ManifestLines(fl, fs, idx) ==
    IF idx > Len(fs) THEN ""
    ELSE ManifestLine(fl, fs[idx], idx) \o "\n" \o ManifestLines(fl, fs, idx + 1)

\* "\n".join(["<file_manifest>", line_1, ..., line_n, "</file_manifest>\n"])
Manifest(fl, fs) ==
    "<file_manifest>\n" \o ManifestLines(fl, fs, 1) \o "</file_manifest>\n"

V3Block(f, idx, total) ==
    "\n<file index=\"" \o ToString(idx) \o "\" total=\"" \o ToString(total) \o "\">\n"
        \o "  <metadata>\n"
        \o "    <path>" \o f.path \o "</path>\n"
        \o "    <language>" \o LangV3(Ext(f.path)) \o "</language>\n"
        \o "    <component>" \o Component(f.path) \o "</component>\n"
        \o "    <lines>" \o ToString(SplitLinesCount(f.content)) \o "</lines>\n"
        \o "    <characters>" \o ToString(Len(f.content)) \o "</characters>\n"
        \o "  </metadata>\n"
        \o "  <content>\n"
        \o f.content \o "\n"
        \o "  </content>\n"
        \o "</file>\n"

StandaloneBlock(f, idx, total) ==
    "\n<file index=\"" \o ToString(idx) \o "\" total=\"" \o ToString(total) \o "\">\n"
        \o "  <metadata>\n"
        \o "    <path>" \o f.path \o "</path>\n"
        \o "    <language>" \o LangStandalone(Ext(f.path)) \o "</language>\n"
        \o "    <lines>" \o ToString(SplitLinesCount(f.content)) \o "</lines>\n"
        \o "    <characters>" \o ToString(Len(f.content)) \o "</characters>\n"
        \o "  </metadata>\n"
        \o "  <content>\n"
        \o f.content \o "\n"
        \o "  </content>\n"
        \o "</file>\n"

AnnotatedBlock(fl, f, idx, total) ==
    IF fl = "core_review_v3" THEN V3Block(f, idx, total) ELSE StandaloneBlock(f, idx, total)

\* f"\n... truncated ({n} files remaining)"
AnnotatedMarker(remaining) == "\n... truncated (" \o ToString(remaining) \o " files remaining)"

\* the number each script puts in the marker when it stops at file number idx:
\* v3: len(files) - len(parts); standalone: total - idx + 1
V3Remaining(fs, ps, idx) == Len(fs) - Len(ps)
StandaloneRemaining(fs, ps, idx) == Len(fs) - idx + 1

\* AnnotatedLoop without the `break`: the marker is appended for a file
\* that does not fit and the loop goes on with the next file
RECURSIVE AnnotatedLoopMarksAndGoesOn(_, _, _, _, _, _)
AnnotatedLoopMarksAndGoesOn(fl, fs, idx, ps, size, max) ==
    IF idx > Len(fs) THEN ps
    ELSE LET block == AnnotatedBlock(fl, fs[idx], idx, Len(fs))
         IN  IF size + Len(block) > max
             THEN AnnotatedLoopMarksAndGoesOn(fl, fs, idx + 1,
                     Append(ps, [kind |-> "marker",
                                 text |-> AnnotatedMarker(
                                     IF fl = "core_review_v3"
                                     THEN V3Remaining(fs, ps, idx)
                                     ELSE StandaloneRemaining(fs, ps, idx))]),
                     size, max)
             ELSE AnnotatedLoopMarksAndGoesOn(fl, fs, idx + 1,
                     Append(ps, [kind |-> "block", text |-> block]),
                     size + Len(block), max)

\* the second for loop of the annotated format functions, from file number idx on
RECURSIVE AnnotatedLoop(_, _, _, _, _, _)
AnnotatedLoop(fl, fs, idx, ps, size, max) ==
    IF idx > Len(fs) THEN ps
    ELSE LET block == AnnotatedBlock(fl, fs[idx], idx, Len(fs))
         IN  IF size + Len(block) > max
             THEN Append(ps, [kind |-> "marker",
                              text |-> AnnotatedMarker(
                                  IF fl = "core_review_v3"
                                  THEN V3Remaining(fs, ps, idx)
                                  ELSE StandaloneRemaining(fs, ps, idx))])
             ELSE AnnotatedLoop(fl, fs, idx + 1,
                                Append(ps, [kind |-> "block", text |-> block]),
                                size + Len(block), max)

\* the manifest is appended, and counted, before any file is looked at
AnnotatedParts(fl, fs, max) ==
    LET manifest == Manifest(fl, fs)
    IN  AnnotatedLoop(fl, fs, 1, <<[kind |-> "manifest", text |-> manifest]>>,
                      Len(manifest), max)

\* core_review_v3.format_files(files, max_size): the list `parts`
format_files_v3(fs, max) == AnnotatedParts("core_review_v3", fs, max)

\* review_standalone.format_files(files, max_size): the list `parts`
format_files_standalone(fs, max) == AnnotatedParts("review_standalone", fs, max)

(***************************************************************************)
(* The Content Budgeter as a state machine: one call of a format function  *)
(* on a list of files and a budget.  The free-text scripts hand over the   *)
(* list in glob order (gather_core_files and gather_source_files do not    *)
(* sort); the structured scripts hand over the sorted list gather_files    *)
(* returns.  main never calls a format function with an empty list.        *)
(***************************************************************************)
BudgetFlows == PlainFlows \cup AnnotatedFlows

FormatParts(fl, fs, max) ==
    CASE fl = "core_review" -> format_files_core(fs, max)
      [] fl = "codebase_review" -> format_codebase(fs, max)
      [] fl = "core_review_v3" -> format_files_v3(fs, max)
      [] fl = "review_standalone" -> format_files_standalone(fs, max)

\* what the running size starts at: nothing, or the manifest
BaseSize(fl, fs) == IF fl \in PlainFlows THEN 0 ELSE Len(Manifest(fl, fs))

BlockOf(fl, fs, i) ==
    IF fl \in PlainFlows THEN PlainBlock(fl, fs[i])
    ELSE AnnotatedBlock(fl, fs[i], i, Len(fs))

RECURSIVE PrefixSize(_, _, _)
PrefixSize(fl, fs, k) ==
    IF k = 0 THEN BaseSize(fl, fs)
    ELSE PrefixSize(fl, fs, k - 1) + Len(BlockOf(fl, fs, k))

\* the budgets at, just below and just above every point where one more
\* block of the list fits, and the empty budget
BoundaryBudgets(fl, fs) ==
    LET sorted == SortByPath(fs)
    IN  {0} \cup { b \in { PrefixSize(fl, sorted, k) + d :
                              k \in 0..Len(fs), d \in {-1, 0, 1} } : b >= 0 }

InitBudget ==
    /\ env = StageEnv
    /\ root = RelativeRoot
    /\ NoCall
    /\ diff = "none"
    /\ flow \in BudgetFlows
    /\ pc = "format"
    /\ globbed = <<>>
    /\ files \in FileLists
    /\ flow \in AnnotatedFlows => IsSortedByPath(files)
    /\ max_size \in BoundaryBudgets(flow, files)
    /\ parts = <<>>
    /\ output = ""
    /\ attempt = 1
    /\ calls = 0
    /\ sleeps = <<>>
    /\ outcomes = <<>>
    /\ raised = "none"
    /\ raw = <<>>
    /\ review = [t |-> "null"]
    /\ published = <<>>

Format(fl) ==
    /\ pc = "format"
    /\ flow = fl
    /\ parts' = FormatParts(fl, files, max_size)
    /\ output' = Join(parts')
    \* files.sort() of the plain functions sorts the caller's list in place
    /\ files' = IF fl \in PlainFlows THEN SortByPath(files) ELSE files
    /\ pc' = "formatted"
    /\ UNCHANGED <<flow, callVars, mainVars, globbed, max_size, retryVars, replyVars>>

FormatFilesCore == Format("core_review")
FormatCodebase == Format("codebase_review")
FormatFilesV3 == Format("core_review_v3")
FormatFilesStandalone == Format("review_standalone")

NextBudget ==
    \/ FormatFilesCore
    \/ FormatCodebase
    \/ FormatFilesV3
    \/ FormatFilesStandalone

SpecBudget == InitBudget /\ [][NextBudget]_vars

(***************************************************************************)
(* Observations on a finished budgeter call.                               *)
(***************************************************************************)
Formatted == pc = "formatted"

PartsOfKind(k) == SelectSeq(parts, LAMBDA p : p.kind = k)

NumBlocks == Len(PartsOfKind("block"))

Truncated == PartsOfKind("marker") # <<>>

MarkerText(fl, n) == IF fl \in PlainFlows THEN PlainMarker(n) ELSE AnnotatedMarker(n)

\* the length of the marker the call appended, or would have appended
MarkerLen ==
    IF Truncated THEN Len(PartsOfKind("marker")[1].text)
    ELSE Len(MarkerText(flow, Len(files)))

\* the list of the call's files in path order, defined by what it is
\* rather than by how list.sort computes it
SortedRef ==
    CHOOSE s \in [1..Len(files) -> {files[i] : i \in 1..Len(files)}] :
        /\ {s[i] : i \in 1..Len(s)} = {files[i] : i \in 1..Len(files)}
        /\ IsSortedByPath(s)

(***************************************************************************)
(* C1.  For every list of files and every budget B, the string a Content   *)
(* Budgeter returns is at most B plus the length of the truncation marker  *)
(* long.  (Stated as claimed; the annotated budgeters break it, because    *)
(* they append the manifest without looking at the budget.)                *)
(***************************************************************************)
C1_OutputWithinBudget ==
    Formatted => Len(output) <= max_size + MarkerLen

(***************************************************************************)
(* C2.  Whenever a Content Budgeter stops before embedding every file,     *)
(* the trailing marker states exactly the number of files whose blocks     *)
(* were not embedded.  (Stated as claimed; core_review_v3 counts the       *)
(* manifest as an embedded file and states one file too few.)              *)
(***************************************************************************)
C2_MarkerCountsOmitted ==
    (Formatted /\ Truncated) =>
        PartsOfKind("marker")[1].text = MarkerText(flow, Len(files) - NumBlocks)

(***************************************************************************)
(* C3.  The embedded blocks are exactly a prefix of the path-sorted file   *)
(* list: each one is the complete block of its file, blocks are embedded   *)
(* while the running size plus the next block does not exceed the budget,  *)
(* and nothing is embedded after the first file that does not fit.         *)
(***************************************************************************)
C3_EmbeddedIsFittingPrefix ==
    Formatted =>
        LET ref == SortedRef
            n == Len(files)
            k == NumBlocks
            blocks == PartsOfKind("block")
        IN  /\ k <= n
            /\ \A i \in 1..k : blocks[i].text = BlockOf(flow, ref, i)
            /\ \A j \in 1..k : PrefixSize(flow, ref, j) <= max_size
            /\ k < n => PrefixSize(flow, ref, k + 1) > max_size
            /\ Truncated <=> k < n

\* a truncated call that embedded some files and dropped more than one
C3_Witness ==
    /\ Formatted
    /\ flow \in PlainFlows
    /\ NumBlocks >= 1
    /\ Len(files) - NumBlocks >= 2

(***************************************************************************)
(* Response Extractor (core_review_v3.review_code lines 277-317,           *)
(* review_standalone.review_code lines 181-213).                           *)
(* A reply is a sequence of symbols.  Every symbol is one unit to the      *)
(* scans of the code: the JSON punctuation { } [ ] : , and the double      *)
(* quote are single characters, "~~~" is the three-backtick fence, "json"  *)
(* the fence tag, "<think>" and "</think>" the reasoning tags, " " is      *)
(* white space, and any other symbol is a run of ordinary characters       *)
(* (a word of prose, a key, a string's text, a number).                    *)
(***************************************************************************)
FENCE == "~~~"
DQ == "\""
WS == " "

Positions(t) == [i \in 1..Len(t) |-> i]

\* text.find(sym, from): the first position >= from holding sym, 0 if none
Find(t, sym, from) ==
    LET hits == SelectSeq(Positions(t), LAMBDA i : i >= from /\ t[i] = sym)
    IN  IF hits = <<>> THEN 0 ELSE hits[1]

\* text.find("~~~json"): the first fence directly followed by the tag, 0 if none
FindFenceJson(t, from) ==
    LET hits == SelectSeq(Positions(t),
                    LAMBDA i : i >= from /\ i + 1 <= Len(t)
                               /\ t[i] = FENCE /\ t[i + 1] = "json")
    IN  IF hits = <<>> THEN 0 ELSE hits[1]

\* str.strip()
RECURSIVE LStrip(_)
LStrip(t) == IF t # <<>> /\ Head(t) = WS THEN LStrip(Tail(t)) ELSE t

RECURSIVE RStrip(_)
RStrip(t) ==
    IF t # <<>> /\ t[Len(t)] = WS THEN RStrip(SubSeq(t, 1, Len(t) - 1)) ELSE t

Strip(t) == RStrip(LStrip(t))

\* re.sub(r'<think>.*?</think>', '', raw, flags=re.DOTALL): every leftmost,
\* shortest <think>...</think> region goes; an unclosed <think> stays.
\* One step removes the first region and goes on behind it.
RECURSIVE RemoveThink(_, _)
RemoveThink(t, i) ==
    LET open == Find(t, "<think>", i)
        close == IF open = 0 THEN 0 ELSE Find(t, "</think>", open + 1)
    IN  IF close = 0 THEN SubSeq(t, i, Len(t))
        ELSE SubSeq(t, i, open - 1) \o RemoveThink(t, close + 1)

\* UnwrapFence that tests for any fence first and takes the first block
UnwrapFirstFence(content) ==
    IF Find(content, FENCE, 1) # 0
    THEN LET start == Find(content, FENCE, 1) + 1
             end == Find(content, FENCE, start)
         IN  IF end > start THEN Strip(SubSeq(content, start, end - 1)) ELSE content
    ELSE content

\* the if/elif on code fences
UnwrapFence(content) ==
    IF FindFenceJson(content, 1) # 0
    THEN LET start == FindFenceJson(content, 1) + 2
             end == Find(content, FENCE, start)
         IN  IF end > start THEN Strip(SubSeq(content, start, end - 1)) ELSE content
    ELSE IF Find(content, FENCE, 1) # 0
    THEN LET start == Find(content, FENCE, 1) + 1
             end == Find(content, FENCE, start)
         IN  IF end > start THEN Strip(SubSeq(content, start, end - 1)) ELSE content
    ELSE content

StartsWithBrace(content) == content # <<>> /\ Head(content) = "{"

\* if not content.startswith("{"): cut to the first "{" when there is one
SeekBrace(content) ==
    IF ~StartsWithBrace(content) /\ Find(content, "{", 1) # 0
    THEN SubSeq(content, Find(content, "{", 1), Len(content))
    ELSE content

\* the positions the depth counter reacts to
BracePositions(content) ==
    SelectSeq(Positions(content), LAMBDA i : content[i] \in {"{", "}"})

\* the depth counter over the braces from number b on: the position of the
\* "}" that brings depth back to 0, 0 when the text ends first
RECURSIVE DepthScan(_, _, _)
DepthScan(content, b, depth) ==
    LET braces == BracePositions(content)
    IN  IF b > Len(braces) THEN 0
        ELSE IF content[braces[b]] = "{" THEN DepthScan(content, b + 1, depth + 1)
        ELSE IF depth - 1 = 0 THEN braces[b]
        ELSE DepthScan(content, b + 1, depth - 1)

\* CutAtMatchingBrace that cuts after the last closing brace of the text
CutAtLastBrace(content) ==
    IF StartsWithBrace(content) /\ \E i \in 1..Len(content) : content[i] = "}"
    THEN SubSeq(content, 1,
             CHOOSE i \in 1..Len(content) :
                 /\ content[i] = "}"
                 /\ \A j \in (i + 1)..Len(content) : content[j] # "}")
    ELSE content

\* if content.startswith("{"): cut after the matching closing brace
CutAtMatchingBrace(content) ==
    IF StartsWithBrace(content) /\ DepthScan(content, 1, 0) > 0
    THEN SubSeq(content, 1, DepthScan(content, 1, 0))
    ELSE content

\* the text handed to json.loads
IsolateJson(reply) ==
    CutAtMatchingBrace(SeekBrace(UnwrapFence(Strip(RemoveThink(reply, 1)))))

(***************************************************************************)
(* json.loads on a symbol sequence.  Values are tagged records:            *)
(*   [t |-> "obj", m |-> <<[k |-> key, v |-> value], ...>>]                *)
(*   [t |-> "arr", e |-> <<value, ...>>]                                   *)
(*   [t |-> "str", s |-> <<symbol, ...>>]   the symbols between the quotes *)
(*   [t |-> "num", n |-> integer]                                          *)
(*   [t |-> "null"]                                                        *)
(* A string runs from a double quote to the next one (the replies of the   *)
(* model hold no escaped quote).                                           *)
(***************************************************************************)
NumberSyms == {"0", "65", "100", "150"}

NumVal(sym) ==
    CASE sym = "0" -> 0
      [] sym = "65" -> 65
      [] sym = "100" -> 100
      [] sym = "150" -> 150

JNull == [t |-> "null"]
JNum(n) == [t |-> "num", n |-> n]
JStr(syms) == [t |-> "str", s |-> syms]
JArr(elems) == [t |-> "arr", e |-> elems]
JObj(members) == [t |-> "obj", m |-> members]

ParseFail == [ok |-> FALSE, val |-> JNull, next |-> 0]
ParseOk(v, next) == [ok |-> TRUE, val |-> v, next |-> next]

RECURSIVE SkipWs(_, _)
SkipWs(t, i) == IF i <= Len(t) /\ t[i] = WS THEN SkipWs(t, i + 1) ELSE i

\* t[i] is the opening quote
ParseString(t, i) ==
    LET close == Find(t, DQ, i + 1)
    IN  IF close = 0 THEN ParseFail
        ELSE ParseOk(JStr(SubSeq(t, i + 1, close - 1)), close + 1)

RECURSIVE ParseValue(_, _)
RECURSIVE ParseMembers(_, _, _)
RECURSIVE ParseElements(_, _, _)

\* the members of an object, from position i on, after those in acc
ParseMembers(t, i, acc) ==
    LET j == SkipWs(t, i)
    IN  IF j > Len(t) \/ t[j] # DQ THEN ParseFail
        ELSE LET key == ParseString(t, j)
                 c == SkipWs(t, key.next)
             IN  IF ~key.ok \/ c > Len(t) \/ t[c] # ":" THEN ParseFail
                 ELSE LET v == ParseValue(t, c + 1)
                          d == SkipWs(t, v.next)
                          acc2 == Append(acc, [k |-> key.val.s, v |-> v.val])
                      IN  IF ~v.ok \/ d > Len(t) THEN ParseFail
                          ELSE IF t[d] = "," THEN ParseMembers(t, d + 1, acc2)
                          ELSE IF t[d] = "}" THEN ParseOk(JObj(acc2), d + 1)
                          ELSE ParseFail

\* the elements of an array, from position i on, after those in acc
ParseElements(t, i, acc) ==
    LET v == ParseValue(t, i)
        d == SkipWs(t, v.next)
        acc2 == Append(acc, v.val)
    IN  IF ~v.ok \/ d > Len(t) THEN ParseFail
        ELSE IF t[d] = "," THEN ParseElements(t, d + 1, acc2)
        ELSE IF t[d] = "]" THEN ParseOk(JArr(acc2), d + 1)
        ELSE ParseFail

ParseValue(t, i) ==
    LET j == SkipWs(t, i)
    IN  IF j > Len(t) THEN ParseFail
        ELSE IF t[j] = "{"
             THEN LET k == SkipWs(t, j + 1)
                  IN  IF k <= Len(t) /\ t[k] = "}" THEN ParseOk(JObj(<<>>), k + 1)
                      ELSE ParseMembers(t, j + 1, <<>>)
        ELSE IF t[j] = "["
             THEN LET k == SkipWs(t, j + 1)
                  IN  IF k <= Len(t) /\ t[k] = "]" THEN ParseOk(JArr(<<>>), k + 1)
                      ELSE ParseElements(t, j + 1, <<>>)
        ELSE IF t[j] = DQ THEN ParseString(t, j)
        ELSE IF t[j] = "null" THEN ParseOk(JNull, j + 1)
        ELSE IF t[j] \in NumberSyms THEN ParseOk(JNum(NumVal(t[j])), j + 1)
        ELSE ParseFail

\* json.loads(text): [ok |-> TRUE, val |-> value], or ok = FALSE for the
\* JSONDecodeError it raises (no value, or text left after the value)
json_loads(text) ==
    LET r == ParseValue(text, 1)
    IN  IF r.ok /\ SkipWs(text, r.next) > Len(text)
        THEN [ok |-> TRUE, val |-> r.val]
        ELSE [ok |-> FALSE, val |-> JNull]

\* lines 277-317 of core_review_v3.review_code: the reply to the value
\* returned, or to the exception json.loads raises
extract_v3(reply) == json_loads(IsolateJson(reply))

\* lines 181-213 of review_standalone.review_code: the same steps
extract_standalone(reply) == json_loads(IsolateJson(reply))

Extract(fl, reply) ==
    IF fl = "core_review_v3" THEN extract_v3(reply) ELSE extract_standalone(reply)

(***************************************************************************)
(* Access to parsed values, as the Python code reads them.                 *)
(***************************************************************************)
IsObj(v) == v.t = "obj"
IsArr(v) == v.t = "arr"
IsStr(v) == v.t = "str"

\* key in d
HasKey(v, key) == IsObj(v) /\ \E i \in 1..Len(v.m) : v.m[i].k = <<key>>

\* d[key] (a later duplicate of a key replaces an earlier one)
Get(v, key) ==
    LET last == CHOOSE i \in 1..Len(v.m) :
                    /\ v.m[i].k = <<key>>
                    /\ \A j \in (i + 1)..Len(v.m) : v.m[j].k # <<key>>
    IN  v.m[last].v

\* the one-word string a value holds, "" for anything else
Word(v) == IF IsStr(v) /\ Len(v.s) = 1 THEN v.s[1] ELSE ""

(***************************************************************************)
(* REVIEW_SCHEMA (core_review_v3.py lines 38-108).                         *)
(***************************************************************************)
RequiredTopKeys ==
    {"improvements", "architecture_notes", "security_posture", "top_priority", "risk_score"}

RequiredItemKeys ==
    {"id", "file", "severity", "category", "title", "problem", "solution", "effort"}

Severities == {"critical", "high", "medium", "low"}
Categories == {"security", "performance", "quality", "architecture", "maintainability"}
Efforts == {"trivial", "small", "medium", "large"}

ItemsOf(v) ==
    IF HasKey(v, "improvements") /\ IsArr(Get(v, "improvements"))
    THEN Get(v, "improvements").e
    ELSE <<>>

HasRequiredKeys(v) ==
    /\ IsObj(v)
    /\ \A key \in RequiredTopKeys : HasKey(v, key)
    /\ IsArr(Get(v, "improvements"))
    /\ \A i \in 1..Len(ItemsOf(v)) :
           \A key \in RequiredItemKeys : HasKey(ItemsOf(v)[i], key)

EnumsValid(v) ==
    \A i \in 1..Len(ItemsOf(v)) :
        LET item == ItemsOf(v)[i]
        IN  /\ HasKey(item, "severity") => Word(Get(item, "severity")) \in Severities
            /\ HasKey(item, "category") => Word(Get(item, "category")) \in Categories
            /\ HasKey(item, "effort") => Word(Get(item, "effort")) \in Efforts

IdsDistinct(v) ==
    \A i, j \in 1..Len(ItemsOf(v)) :
        (i # j /\ HasKey(ItemsOf(v)[i], "id") /\ HasKey(ItemsOf(v)[j], "id"))
            => Get(ItemsOf(v)[i], "id") # Get(ItemsOf(v)[j], "id")

RiskInRange(v) ==
    /\ HasKey(v, "risk_score")
    /\ Get(v, "risk_score").t = "num"
    /\ Get(v, "risk_score").n \in 0..100

(***************************************************************************)
(* json.dumps (review_standalone.main line 315), without the indentation.  *)
(* It is also how the replies of the model below are written down.         *)
(***************************************************************************)
NumSym(n) == CHOOSE sym \in NumberSyms : NumVal(sym) = n

RECURSIVE Dumps(_)
RECURSIVE DumpsMembers(_, _)
RECURSIVE DumpsElements(_, _)

DumpsMembers(ms, i) ==
    IF i > Len(ms) THEN <<>>
    ELSE (IF i > 1 THEN <<",">> ELSE <<>>)
            \o <<DQ>> \o ms[i].k \o <<DQ, ":">> \o Dumps(ms[i].v)
            \o DumpsMembers(ms, i + 1)

DumpsElements(es, i) ==
    IF i > Len(es) THEN <<>>
    ELSE (IF i > 1 THEN <<",">> ELSE <<>>) \o Dumps(es[i]) \o DumpsElements(es, i + 1)

Dumps(v) ==
    CASE v.t = "obj" -> <<"{">> \o DumpsMembers(v.m, 1) \o <<"}">>
      [] v.t = "arr" -> <<"[">> \o DumpsElements(v.e, 1) \o <<"]">>
      [] v.t = "str" -> <<DQ>> \o v.s \o <<DQ>>
      [] v.t = "num" -> <<NumSym(v.n)>>
      [] v.t = "null" -> <<"null">>

(***************************************************************************)
(* Replies of the model: what the transport can deliver.  A review is      *)
(* written down with Dumps and wrapped the ways models wrap their JSON.    *)
(***************************************************************************)
Member(key, v) == [k |-> <<key>>, v |-> v]

MkItem(id, severity, category, effort, withTitle) ==
    JObj(<<Member("id", JStr(<<id>>)),
           Member("file", JStr(<<"src/a.ts">>)),
           Member("severity", JStr(<<severity>>)),
           Member("category", JStr(<<category>>))>>
         \o (IF withTitle THEN <<Member("title", JStr(<<"title">>))>> ELSE <<>>)
         \o <<Member("problem", JStr(<<"problem">>)),
              Member("solution", JStr(<<"solution">>)),
              Member("effort", JStr(<<effort>>))>>)

\* two items that follow the schema, and four that break it one way each
ItemVariants ==
    { MkItem("SEC-001", "critical", "security", "small", TRUE),
      MkItem("PERF-002", "low", "performance", "trivial", TRUE),
      MkItem("QUAL-003", "urgent", "quality", "medium", TRUE),
      MkItem("QUAL-003", "high", "style", "small", TRUE),
      MkItem("QUAL-003", "medium", "architecture", "huge", TRUE),
      MkItem("QUAL-003", "high", "maintainability", "large", FALSE) }

ItemLists == UNION { [1..n -> ItemVariants] : n \in 0..MaxImprovements }

MkReview(items, risk, withTopPriority) ==
    JObj(<<Member("improvements", JArr(items)),
           Member("architecture_notes", JStr(<<"notes">>)),
           Member("security_posture", JStr(<<"posture">>))>>
         \o (IF withTopPriority THEN <<Member("top_priority", JStr(<<"first">>))>> ELSE <<>>)
         \o <<Member("risk_score", JNum(risk))>>)

Reviews ==
    { MkReview(items, risk, top) :
        items \in ItemLists, risk \in {65, 150}, top \in BOOLEAN }

\* the ways a model wraps its JSON
Bare(text) == text
ThinkThenJsonFence(text) ==
    <<"<think>", "reasoning", "</think>", WS, FENCE, "json", WS>> \o text \o <<WS, FENCE>>
PlainFence(text) == <<FENCE, WS>> \o text \o <<WS, FENCE>>
InProse(text) == <<"Here", WS>> \o text \o <<WS, "Done">>

Wrappings(text) == {Bare(text), ThinkThenJsonFence(text), PlainFence(text), InProse(text)}

WrappedReviews == UNION { Wrappings(Dumps(r)) : r \in Reviews }

\* short texts over the symbols the scans and the parser tell apart
RawAlphabet == {"{", "}", "[", "]", DQ, "null", "65", "prose", FENCE}

RawTexts == UNION { [1..n -> RawAlphabet] : n \in 1..MaxRawLen }

\* replies put together from prose, fenced blocks and a think block; the
\* untagged block holds {}, the json block [], the one inside <think> 65
UntaggedBlock == <<FENCE, WS, "{", "}", WS, FENCE>>
JsonBlock == <<FENCE, "json", WS, "[", "]", WS, FENCE>>
ThinkBlock == <<"<think>", FENCE, "json", WS, "65", WS, FENCE, "</think>">>

Pieces == { <<"prose">>, <<"null">>, UntaggedBlock, JsonBlock, ThinkBlock, <<FENCE>> }

RECURSIVE JoinPieces(_, _)
JoinPieces(ps, i) ==
    IF i > Len(ps) THEN <<>>
    ELSE (IF i > 1 THEN <<WS>> ELSE <<>>) \o ps[i] \o JoinPieces(ps, i + 1)

PiecedTexts ==
    { JoinPieces(ps, 1) : ps \in UNION { [1..n -> Pieces] : n \in 1..MaxPieces } }

ExtractInputs == WrappedReviews \cup RawTexts \cup PiecedTexts

\* a review that follows the schema in every respect
GoodReview ==
    MkReview(<<MkItem("SEC-001", "critical", "security", "small", TRUE)>>, 65, TRUE)

\* the replies the transport delivers in the pipeline
PipelineReplies ==
    { Bare(Dumps(GoodReview)),
      ThinkThenJsonFence(Dumps(GoodReview)),
      <<"I", WS, "cannot", WS, "review", WS, "this">>,
      <<"{", DQ, "improvements", DQ, ":", "[">> }

FreeTextReplies == {<<"Looks", WS, "good">>, <<"Needs", WS, "work">>}

\* the exceptions the transport raises
TransportErrors == {"APITimeoutError", "RateLimitError"}

(***************************************************************************)
(* Model Caller.  One action is one pass through the body of the retry     *)
(* loop: the transport call, what follows it inside the try block, and,    *)
(* when an exception is raised there, the except clause.                   *)
(***************************************************************************)
MAX_RETRIES == 3

FreeTextFlows == {"core_review", "codebase_review"}
StructuredFlows == {"core_review_v3", "review_standalone"}
RetryFlows == FreeTextFlows \cup StructuredFlows
AllFlows == RetryFlows \cup {"diff_review"}

\* Messages with the prompt assembled again, from the current value of
\* content, for every transport call
MessagesRebuilt(fl) == REVIEW_PROMPT_format(call_content)

\* messages=[{"role": "user", "content": prompt}]
Messages(fl) == prompt

\* content after the try block received a reply: core_review_v3 assigns
\* every step of the extraction to `content`; review_standalone uses `text`
ContentAfter(fl, reply) ==
    IF fl = "core_review_v3" THEN FromReply(IsolateJson(reply)) ELSE call_content

\* Backoff with the attempt counted from 0
BackoffFromZero(k) == 2 ^ (k - 1)

\* wait_time = 2 ** attempt
Backoff(k) == 2 ^ k

\* Handler with `attempt <= MAX_RETRIES`: one retry too many
HandlerRetriesOnceMore(err) ==
    IF attempt <= MAX_RETRIES
    THEN /\ sleeps' = Append(sleeps, Backoff(attempt))
         /\ attempt' = attempt + 1
         /\ UNCHANGED <<pc, raised>>
    ELSE /\ pc' = "raised"
         /\ raised' = err
         /\ UNCHANGED <<sleeps, attempt>>

\* Handler that gives up quietly on the last attempt: review_code returns
\* None instead of raising
HandlerReturnsNone(err) ==
    IF attempt < MAX_RETRIES
    THEN /\ sleeps' = Append(sleeps, Backoff(attempt))
         /\ attempt' = attempt + 1
         /\ UNCHANGED <<pc, raised>>
    ELSE /\ pc' = "returned"
         /\ UNCHANGED <<sleeps, attempt, raised>>

\* the except clause, entered with exception err on the current attempt:
\* sleep and go round again, or re-raise on the last attempt
Handler(err) ==
    IF attempt < MAX_RETRIES
    THEN /\ sleeps' = Append(sleeps, Backoff(attempt))
         /\ attempt' = attempt + 1
         /\ UNCHANGED <<pc, raised>>
    ELSE /\ pc' = "raised"
         /\ raised' = err
         /\ UNCHANGED <<sleeps, attempt>>

\* client.chat.completions.create raises err
TransportFails(err) ==
    /\ pc = "attempt"
    /\ flow \in RetryFlows
    /\ calls' = calls + 1
    /\ outcomes' = Append(outcomes, [kind |-> "transport_error", err |-> err])
    /\ Handler(err)
    /\ sent' = Append(sent, Messages(flow))
    /\ UNCHANGED <<flow, prompt, call_content, mainVars, budgetVars, replyVars>>

\* free-text flows: the call returns and its content is the review
TransportReturnsText(reply) ==
    /\ pc = "attempt"
    /\ flow \in FreeTextFlows
    /\ calls' = calls + 1
    /\ outcomes' = Append(outcomes, [kind |-> "ok", err |-> "none"])
    /\ raw' = reply
    /\ review' = JStr(reply)
    /\ pc' = "returned"
    /\ sent' = Append(sent, Messages(flow))
    /\ UNCHANGED <<flow, prompt, call_content, mainVars, budgetVars, attempt, sleeps, raised,
                   published>>

\* TransportReturnsReply with json.loads outside the try block: a reply
\* that cannot be parsed ends the call at once
TransportReturnsReplyNoRetry(reply) ==
    /\ pc = "attempt"
    /\ flow \in StructuredFlows
    /\ calls' = calls + 1
    /\ raw' = reply
    /\ LET r == Extract(flow, reply)
       IN  IF r.ok
           THEN /\ outcomes' = Append(outcomes, [kind |-> "ok", err |-> "none"])
                /\ review' = r.val
                /\ pc' = "returned"
                /\ UNCHANGED <<attempt, sleeps, raised>>
           ELSE /\ outcomes' = Append(outcomes,
                        [kind |-> "extract_error", err |-> "JSONDecodeError"])
                /\ pc' = "raised"
                /\ raised' = "JSONDecodeError"
                /\ UNCHANGED <<attempt, sleeps, review>>
    /\ sent' = Append(sent, Messages(flow))
    /\ call_content' = ContentAfter(flow, reply)
    /\ UNCHANGED <<flow, prompt, mainVars, budgetVars, published>>

\* structured flows: the call returns and the reply is extracted inside the
\* same try block, so the JSONDecodeError of json.loads reaches the handler
TransportReturnsReply(reply) ==
    /\ pc = "attempt"
    /\ flow \in StructuredFlows
    /\ calls' = calls + 1
    /\ raw' = reply
    /\ LET r == Extract(flow, reply)
       IN  IF r.ok
           THEN /\ outcomes' = Append(outcomes, [kind |-> "ok", err |-> "none"])
                /\ review' = r.val
                /\ pc' = "returned"
                /\ UNCHANGED <<attempt, sleeps, raised>>
           ELSE /\ outcomes' = Append(outcomes,
                        [kind |-> "extract_error", err |-> "JSONDecodeError"])
                /\ Handler("JSONDecodeError")
                /\ UNCHANGED review
    /\ sent' = Append(sent, Messages(flow))
    /\ call_content' = ContentAfter(flow, reply)
    /\ UNCHANGED <<flow, prompt, mainVars, budgetVars, published>>

\* laozhang_review.review_diff: one call, no loop, no except clause
ReviewDiffFails(err) ==
    /\ pc = "attempt"
    /\ flow = "diff_review"
    /\ calls' = calls + 1
    /\ outcomes' = Append(outcomes, [kind |-> "transport_error", err |-> err])
    /\ pc' = "raised"
    /\ raised' = err
    /\ sent' = Append(sent, Messages(flow))
    /\ UNCHANGED <<flow, prompt, call_content, mainVars, budgetVars, attempt, sleeps, replyVars>>

ReviewDiffReturns(reply) ==
    /\ pc = "attempt"
    /\ flow = "diff_review"
    /\ calls' = calls + 1
    /\ outcomes' = Append(outcomes, [kind |-> "ok", err |-> "none"])
    /\ raw' = reply
    /\ review' = JStr(reply)
    /\ pc' = "returned"
    /\ sent' = Append(sent, Messages(flow))
    /\ UNCHANGED <<flow, prompt, call_content, mainVars, budgetVars, attempt, sleeps, raised,
                   published>>

(***************************************************************************)
(* Report Renderer and Publisher: what main does with the returned value.  *)
(***************************************************************************)
\* the severities walked from the least to the most severe
SeverityOrderAscending == <<"low", "medium", "high", "critical">>

\* for severity in ["critical", "high", "medium", "low"]
SeverityOrder == <<"critical", "high", "medium", "low">>

\* by_severity[severity] after the grouping loop
BySeverity(v, severity) ==
    SelectSeq(ItemsOf(v), LAMBDA item : Word(Get(item, "severity")) = severity)

\* the sections the for loop over the four severities emits
RECURSIVE SectionsFrom(_, _)
SectionsFrom(v, i) ==
    IF i > Len(SeverityOrder) THEN <<>>
    ELSE (IF BySeverity(v, SeverityOrder[i]) = <<>> THEN <<>>
          ELSE <<[severity |-> SeverityOrder[i],
                  items |-> BySeverity(v, SeverityOrder[i])]>>)
         \o SectionsFrom(v, i + 1)

Rendered(v) == [risk_score |-> Get(v, "risk_score"), sections |-> SectionsFrom(v, 1)]

\* category_icons.get(item["category"], <pin>) of format_issue_body; the
\* icons are written by name
CategoryIcon(c) ==
    CASE c = "security" -> "icon_lock"
      [] c = "performance" -> "icon_bolt"
      [] c = "quality" -> "icon_sparkles"
      [] c = "architecture" -> "icon_building"
      [] c = "maintainability" -> "icon_wrench"
      [] OTHER -> "icon_pin"

\* effort_labels.get(item["effort"], item["effort"])
EffortLabel(e) ==
    CASE e = "trivial" -> "~1h"
      [] e = "small" -> "~4h"
      [] e = "medium" -> "~1d"
      [] e = "large" -> "~1w"
      [] OTHER -> e

\* the category and effort texts of the item lines, section by section
LabelsV3(v) ==
    [k \in 1..Len(SectionsFrom(v, 1)) |->
        [i \in 1..Len(SectionsFrom(v, 1)[k].items) |->
            LET item == SectionsFrom(v, 1)[k].items[i]
            IN  [category |-> CategoryIcon(Word(Get(item, "category"))),
                 effort |-> EffortLabel(Word(Get(item, "effort")))]]]

\* format_markdown prints item['category'] as it is
LabelsStandalone(v) ==
    [k \in 1..Len(SectionsFrom(v, 1)) |->
        [i \in 1..Len(SectionsFrom(v, 1)[k].items) |->
            LET item == SectionsFrom(v, 1)[k].items[i]
            IN  [category |-> Word(Get(item, "category")),
                 effort |-> EffortLabel(Word(Get(item, "effort")))]]]

RenderedV3(v) ==
    [risk_score |-> Get(v, "risk_score"), sections |-> SectionsFrom(v, 1),
     labels |-> LabelsV3(v)]

RenderedStandalone(v) ==
    [risk_score |-> Get(v, "risk_score"), sections |-> SectionsFrom(v, 1),
     labels |-> LabelsStandalone(v)]

\* the subscripts format_issue_body / format_markdown evaluate without a
\* KeyError or TypeError; by_severity[item["severity"]] needs a known severity
ItemsRenderable(v, itemKeys) ==
    \A i \in 1..Len(ItemsOf(v)) :
        LET item == ItemsOf(v)[i]
        IN  /\ IsObj(item)
            /\ \A key \in itemKeys : HasKey(item, key)
            /\ Word(Get(item, "severity")) \in Severities

TopRenderable(v) ==
    /\ IsObj(v)
    /\ \A key \in RequiredTopKeys : HasKey(v, key)
    /\ IsArr(Get(v, "improvements"))
    /\ IsStr(Get(v, "architecture_notes"))
    /\ IsStr(Get(v, "security_posture"))

\* core_review_v3: main lines 488-494, create_issue, format_issue_body
RenderableV3(v) ==
    /\ TopRenderable(v)
    /\ ItemsRenderable(v, RequiredItemKeys)
    /\ \A i \in 1..Len(ItemsOf(v)) : IsStr(Get(ItemsOf(v)[i], "category"))

\* review_standalone.format_markdown (line_hint is read with .get)
RenderableStandalone(v) ==
    /\ TopRenderable(v)
    /\ ItemsRenderable(v, RequiredItemKeys)

\* core_review.create_issue, laozhang_codebase_review.create_review_issue
CreateIssueText ==
    /\ pc = "returned"
    /\ flow \in FreeTextFlows
    /\ published' = Append(published, [via |-> "create_issue", body |-> review])
    /\ pc' = "done"
    /\ UNCHANGED <<flow, callVars, mainVars, budgetVars, retryVars, raw, review>>

\* laozhang_review.post_review_comment
PostReviewComment ==
    /\ pc = "returned"
    /\ flow = "diff_review"
    /\ published' = Append(published, [via |-> "post_comment", body |-> review])
    /\ pc' = "done"
    /\ UNCHANGED <<flow, callVars, mainVars, budgetVars, retryVars, raw, review>>

\* core_review_v3.main after review_code: prints, create_issue
CreateIssueV3 ==
    /\ pc = "returned"
    /\ flow = "core_review_v3"
    /\ IF RenderableV3(review)
       THEN /\ published' = Append(published,
                    [via |-> "create_issue", body |-> RenderedV3(review)])
            /\ pc' = "done"
       ELSE /\ pc' = "crashed"
            /\ UNCHANGED published
    /\ UNCHANGED <<flow, callVars, mainVars, budgetVars, retryVars, raw, review>>

\* review_standalone.main with --json: print(json.dumps(review, indent=2))
PrintJson ==
    /\ pc = "returned"
    /\ flow = "review_standalone"
    /\ published' = Append(published, [via |-> "stdout_json", body |-> Dumps(review)])
    /\ pc' = "done"
    /\ UNCHANGED <<flow, callVars, mainVars, budgetVars, retryVars, raw, review>>

\* review_standalone.main without --json: print(format_markdown(review))
PrintMarkdown ==
    /\ pc = "returned"
    /\ flow = "review_standalone"
    /\ IF RenderableStandalone(review)
       THEN /\ published' = Append(published,
                    [via |-> "stdout_markdown", body |-> RenderedStandalone(review)])
            /\ pc' = "done"
       ELSE /\ pc' = "crashed"
            /\ UNCHANGED published
    /\ UNCHANGED <<flow, callVars, mainVars, budgetVars, retryVars, raw, review>>

Publish ==
    \/ CreateIssueText
    \/ PostReviewComment
    \/ CreateIssueV3
    \/ PrintJson
    \/ PrintMarkdown

(***************************************************************************)
(* The review stage of main: the Model Caller, then the publisher.         *)
(***************************************************************************)
InitCommon ==
    /\ env = StageEnv
    /\ root = RelativeRoot
    /\ diff = "none"
    /\ globbed = <<>>
    /\ files = <<>>
    /\ max_size = 0
    /\ parts = <<>>
    /\ output = ""
    /\ attempt = 1
    /\ calls = 0
    /\ sleeps = <<>>
    /\ outcomes = <<>>
    /\ raised = "none"
    /\ review = JNull
    /\ published = <<>>

\* the retry loop is about to start: the prompt has been built from the
\* argument
Init ==
    /\ flow \in AllFlows
    /\ pc = "attempt"
    /\ raw = <<>>
    /\ InitCommon
    /\ call_content = Argument(IF flow = "diff_review" THEN diff ELSE output)
    /\ prompt = REVIEW_PROMPT_format(call_content)
    /\ sent = <<>>

Next ==
    \/ \E err \in TransportErrors : TransportFails(err)
    \/ \E reply \in FreeTextReplies : TransportReturnsText(reply)
    \/ \E reply \in PipelineReplies : TransportReturnsReply(reply)
    \/ \E err \in TransportErrors : ReviewDiffFails(err)
    \/ \E reply \in FreeTextReplies : ReviewDiffReturns(reply)
    \/ Publish

Spec == Init /\ [][Next]_vars

(***************************************************************************)
(* The Response Extractor on its own: one reply, extracted once, and the   *)
(* returned value handed on to main.                                       *)
(***************************************************************************)
InitExtract ==
    /\ flow \in StructuredFlows
    /\ pc = "extract"
    /\ raw \in ExtractInputs
    /\ InitCommon
    /\ NoCall

ExtractReply ==
    /\ pc = "extract"
    /\ LET r == Extract(flow, raw)
       IN  IF r.ok
           THEN /\ review' = r.val
                /\ pc' = "returned"
           ELSE /\ pc' = "extract_error"
                /\ UNCHANGED review
    /\ UNCHANGED <<flow, callVars, mainVars, budgetVars, retryVars, raw, published>>

NextExtract ==
    \/ ExtractReply
    \/ CreateIssueV3
    \/ PrintJson
    \/ PrintMarkdown

SpecExtract == InitExtract /\ [][NextExtract]_vars

(***************************************************************************)
(* Observations on the Model Caller.                                       *)
(***************************************************************************)
Kinds == [k \in 1..Len(outcomes) |-> outcomes[k].kind]

Failed(k) == outcomes[k].kind # "ok"

\* review_code has returned a value to main
Returned == pc \in {"returned", "done", "crashed"}

\* the value the try block returns for the last reply
ResultOfLastReply ==
    IF flow \in StructuredFlows THEN Extract(flow, raw).val ELSE JStr(raw)

(***************************************************************************)
(* C4.  A Model Caller whose transport fails on the first two attempts and *)
(* succeeds on the third returns the success result after exactly 3        *)
(* transport calls and exactly 2 backoff sleeps; one whose transport       *)
(* always fails makes exactly MAX_RETRIES transport calls, never more, and *)
(* then raises.  (The callers with a retry loop; review_diff is C7.)       *)
(***************************************************************************)
C4_RetryBudget ==
    flow \in RetryFlows =>
        /\ calls = Len(outcomes)
        /\ calls <= MAX_RETRIES
        /\ pc = "raised" => calls = MAX_RETRIES
        /\ Kinds = <<"transport_error", "transport_error", "ok">> =>
               /\ Returned
               /\ calls = 3
               /\ Len(sleeps) = 2
               /\ review = ResultOfLastReply
        /\ (Len(outcomes) = MAX_RETRIES /\ \A k \in 1..MAX_RETRIES : Failed(k)) =>
               /\ pc = "raised"
               /\ calls = MAX_RETRIES

\* two failures, then the third call succeeded and its result was returned
C4_Witness ==
    /\ flow \in FreeTextFlows
    /\ pc = "returned"
    /\ Kinds = <<"transport_error", "transport_error", "ok">>

C7_EveryFlowRetries ==
    pc = "raised" =>
        /\ calls = MAX_RETRIES
        /\ sleeps = <<2, 4>>

(***************************************************************************)
(* C8.  Extraction fails whenever the parsed object violates the           *)
(* ReviewResult shape (a required top-level or per-item key is missing,    *)
(* an enum field holds a value outside its set); such a value never        *)
(* reaches rendering or JSON output.  (Stated as claimed; review_code      *)
(* returns whatever json.loads parsed.)                                    *)
(***************************************************************************)
C8_ShapeViolationsRejected ==
    (Returned /\ IsObj(review)) =>
        /\ HasRequiredKeys(review)
        /\ EnumsValid(review)

(***************************************************************************)
(* C9.  Every ReviewResult the extractor returns and the renderer or the   *)
(* JSON output consumes has pairwise distinct improvement ids and an       *)
(* integer risk_score in 0..100.  (Stated as claimed; neither is checked.) *)
(***************************************************************************)
C9_ConsumedResultKeepsInvariants ==
    (pc = "done" /\ published # <<>> /\ HasRequiredKeys(review) /\ EnumsValid(review)) =>
        /\ IdsDistinct(review)
        /\ RiskInRange(review)

(***************************************************************************)
(* C10.  For every reply that contains no balanced {...} span (no "{",     *)
(* or no "{" whose depth returns to zero) extraction fails; it never       *)
(* returns a value for such a text.  (Stated as claimed; a reply that is   *)
(* a JSON array, number or null is parsed and returned.)                   *)
(***************************************************************************)
HasBalancedSpan(t) ==
    \E i \in 1..Len(t) :
        t[i] = "{" /\ DepthScan(SubSeq(t, i, Len(t)), 1, 0) > 0

C10_NoBalancedSpanFails ==
    pc = "returned" => HasBalancedSpan(raw)

(***************************************************************************)
(* The round trip: a review that follows the schema is written down with   *)
(* json.dumps, put in a json fence behind a think block, and extracted.    *)
(***************************************************************************)
\* the marks the extractor reacts to, and a plain word
TitleWords == {"plain", "{", "}", FENCE, "<think>", "</think>"}

Titles == UNION { [1..n -> TitleWords] : n \in 1..MaxTitleLen }

\* a review that follows the schema, with the given title in its one item
TitledReview(title) ==
    JObj(<<Member("improvements", JArr(<<
               JObj(<<Member("id", JStr(<<"SEC-001">>)),
                      Member("file", JStr(<<"src/a.ts">>)),
                      Member("severity", JStr(<<"critical">>)),
                      Member("category", JStr(<<"security">>)),
                      Member("title", JStr(title)),
                      Member("problem", JStr(<<"problem">>)),
                      Member("solution", JStr(<<"solution">>)),
                      Member("effort", JStr(<<"small">>))>>)>>)),
           Member("architecture_notes", JStr(<<"notes">>)),
           Member("security_posture", JStr(<<"posture">>)),
           Member("top_priority", JStr(<<"first">>)),
           Member("risk_score", JNum(65))>>)

\* what a model writes between <think> and </think>
ThinkProses == {<<"reasoning">>, <<"maybe", WS, "{", WS, FENCE, "json">>}

ThinkProseThenJsonFence(prose, text) ==
    <<"<think>">> \o prose \o <<"</think>", WS, FENCE, "json", WS>> \o text \o <<WS, FENCE>>

RoundTripTexts ==
    { ThinkProseThenJsonFence(prose, Dumps(TitledReview(title))) :
        prose \in ThinkProses, title \in Titles }

InitRoundTrip ==
    /\ flow \in StructuredFlows
    /\ pc = "extract"
    /\ raw \in RoundTripTexts
    /\ InitCommon
    /\ NoCall

NextRoundTrip == ExtractReply

SpecRoundTrip == InitRoundTrip /\ [][NextRoundTrip]_vars

(***************************************************************************)
(* C11.  Extractor round trip: for any well-formed ReviewResult, string    *)
(* fields holding "{", "}", a code fence or think tags included, the text  *)
(* made of a think block, then the json-fenced serialisation, is extracted *)
(* to a value equal to the original.  (Stated as claimed; the scans do not *)
(* know about JSON strings.)                                               *)
(***************************************************************************)
C11_RoundTrip ==
    pc # "extract" =>
        \A prose \in ThinkProses, title \in Titles :
            raw = ThinkProseThenJsonFence(prose, Dumps(TitledReview(title))) =>
                /\ pc = "returned"
                /\ review = TitledReview(title)

(***************************************************************************)
(* File Collector.  root.glob(pattern) is what the filesystem gives: for   *)
(* each pattern of the list a sequence of paths, in whatever order.  The   *)
(* collector walks the patterns in list order and the paths in the order   *)
(* they come.                                                              *)
(***************************************************************************)
\* a path under an excluded directory, and a file that is not UTF-8
ExcludedPath == "node_modules/x.ts"
UnreadablePath == "bad.ts"

GlobPaths == {"a.ts", "b.ts", ExcludedPath, UnreadablePath}

\* what one root.glob(pattern) can yield: distinct paths in some order
Yields ==
    { y \in UNION { [1..n -> GlobPaths] : n \in 0..MaxGlob } :
        \A i, j \in 1..Len(y) : i # j => y[i] # y[j] }

\* the list of patterns is two patterns long
GlobResults == [1..2 -> Yields]

\* the directory names every script excludes
EXCLUDE_DIRS == {"node_modules", "target", "dist", "build", ".git"}

\* the parts of a relative path: its directory names and its file name
PathSegments(p) ==
    IF p = ExcludedPath THEN {"node_modules", "x.ts"} ELSE {p}

\* Path(args.dir).resolve(): an absolute path, here of a checkout under a
\* home directory and of the same checkout under a directory named build
AbsoluteRoots == {<<"/", "home", "proj">>, <<"/", "home", "build", "proj">>}

\* the root each main hands to its collector: Path("."), or in
\* review_standalone Path(args.dir).resolve()
RootsOf(fl) == IF fl = "review_standalone" THEN AbsoluteRoots ELSE {RelativeRoot}

\* file_path.parts of a path that r.glob yielded: the parts of r, then the
\* parts of the path below r
FileParts(r, p) == {r[i] : i \in 1..Len(r)} \cup PathSegments(p)

\* file_path.is_file() and should_include_path(file_path); in gather_files
\* `if set(fp.parts) & EXCLUDE_DIRS: continue`
ShouldIncludePath(r, p) == FileParts(r, p) \cap EXCLUDE_DIRS = {}

\* file_path.read_text(encoding="utf-8") raises UnicodeDecodeError or not
Readable(p) == p # UnreadablePath

ReadText(p) == "X"

\* the nested for loops: every path of every pattern, in the order walked
RECURSIVE Walk(_, _)
Walk(g, k) == IF k > Len(g) THEN <<>> ELSE g[k] \o Walk(g, k + 1)

\* the loop body of gather_core_files and of both gather_files, from the
\* i-th walked path on
RECURSIVE GatherSeen(_, _, _, _, _)
GatherSeen(r, walk, i, seen, acc) ==
    IF i > Len(walk) THEN acc
    ELSE LET p == walk[i]
         IN  IF ~ShouldIncludePath(r, p) \/ p \in seen
             THEN GatherSeen(r, walk, i + 1, seen, acc)
             ELSE GatherSeen(r, walk, i + 1, seen \cup {p},
                      IF Readable(p)
                      THEN Append(acc, [path |-> p, content |-> ReadText(p)])
                      ELSE acc)

\* the loop body of gather_source_files: no `seen`
RECURSIVE GatherAll(_, _, _, _)
GatherAll(r, walk, i, acc) ==
    IF i > Len(walk) THEN acc
    ELSE LET p == walk[i]
         IN  GatherAll(r, walk, i + 1,
                 IF ShouldIncludePath(r, p) /\ Readable(p)
                 THEN Append(acc, [path |-> p, content |-> ReadText(p)])
                 ELSE acc)

\* each collector, called on root r when r.glob yields g
gather_core_files(r, g) == GatherSeen(r, Walk(g, 1), 1, {}, <<>>)

gather_source_files(r, g) == GatherAll(r, Walk(g, 1), 1, <<>>)

\* return sorted(files, key=lambda x: x[0])
gather_files_v3(r, g) == SortByPath(GatherSeen(r, Walk(g, 1), 1, {}, <<>>))

gather_files_standalone(r, g) == SortByPath(GatherSeen(r, Walk(g, 1), 1, {}, <<>>))

Gather(fl, r, g) ==
    CASE fl = "core_review" -> gather_core_files(r, g)
      [] fl = "codebase_review" -> gather_source_files(r, g)
      [] fl = "core_review_v3" -> gather_files_v3(r, g)
      [] fl = "review_standalone" -> gather_files_standalone(r, g)

InitCollect ==
    /\ env = StageEnv
    /\ NoCall
    /\ diff = "none"
    /\ flow \in BudgetFlows
    /\ root \in RootsOf(flow)
    /\ pc = "collect"
    /\ globbed \in GlobResults
    /\ files = <<>>
    /\ max_size \in {40, 400}
    /\ parts = <<>>
    /\ output = ""
    /\ attempt = 1
    /\ calls = 0
    /\ sleeps = <<>>
    /\ outcomes = <<>>
    /\ raised = "none"
    /\ raw = <<>>
    /\ review = JNull
    /\ published = <<>>

\* Collect without the test for an empty list: main goes on to format
CollectGoesOn(fl) ==
    /\ pc = "collect"
    /\ flow = fl
    /\ files' = Gather(fl, root, globbed)
    /\ pc' = "format"
    /\ UNCHANGED <<flow, callVars, mainVars, globbed, max_size, parts, output, retryVars, replyVars>>

\* main: files = gather(...); if not files: return
Collect(fl) ==
    /\ pc = "collect"
    /\ flow = fl
    /\ files' = Gather(fl, root, globbed)
    /\ pc' = IF files' = <<>> THEN "no_files" ELSE "format"
    /\ UNCHANGED <<flow, callVars, mainVars, globbed, max_size, parts, output, retryVars, replyVars>>

GatherCoreFiles == Collect("core_review")
GatherSourceFiles == Collect("codebase_review")
GatherFilesV3 == Collect("core_review_v3")
GatherFilesStandalone == Collect("review_standalone")

NextCollect ==
    \/ GatherCoreFiles
    \/ GatherSourceFiles
    \/ GatherFilesV3
    \/ GatherFilesStandalone
    \/ NextBudget

SpecCollect == InitCollect /\ [][NextCollect]_vars

(***************************************************************************)
(* Observations on a finished collector call.                              *)
(***************************************************************************)
Collected == pc \in {"format", "no_files"}

\* the patterns whose glob yields path p
PatternsMatching(p) ==
    { k \in 1..Len(globbed) : \E i \in 1..Len(globbed[k]) : globbed[k][i] = p }

EntriesFor(p) == SelectSeq(files, LAMBDA f : f.path = p)

C13_CollectorReturnsSorted ==
    Collected => IsSortedByPath(files)

(***************************************************************************)
(* The Report Renderer on its own: a value review_code returned, handed    *)
(* to main's rendering and output.                                         *)
(***************************************************************************)
ItemId(i) == "IMP-" \o ToString(i)

SeverityLists == UNION { [1..n -> Severities] : n \in 0..MaxRenderItems }

\* a review that follows the schema whose i-th improvement has severity sevs[i]
SeverityReview(sevs) ==
    MkReview([i \in 1..Len(sevs) |-> MkItem(ItemId(i), sevs[i], "quality", "small", TRUE)],
             65, TRUE)

RenderInputs == {SeverityReview(sevs) : sevs \in SeverityLists} \cup Reviews

InitRender ==
    /\ env = StageEnv
    /\ root = RelativeRoot
    /\ NoCall
    /\ diff = "none"
    /\ flow \in StructuredFlows
    /\ pc = "returned"
    /\ review \in RenderInputs
    /\ raw = Dumps(review)
    /\ globbed = <<>>
    /\ files = <<>>
    /\ max_size = 0
    /\ parts = <<>>
    /\ output = ""
    /\ attempt = 1
    /\ calls = 1
    /\ sleeps = <<>>
    /\ outcomes = <<[kind |-> "ok", err |-> "none"]>>
    /\ raised = "none"
    /\ published = <<>>

NextRender ==
    \/ CreateIssueV3
    \/ PrintJson
    \/ PrintMarkdown

SpecRender == InitRender /\ [][NextRender]_vars

(***************************************************************************)
(* Observations on a rendered document.                                    *)
(***************************************************************************)
RenderedDocs ==
    SelectSeq(published, LAMBDA d : d.via \in {"create_issue", "stdout_markdown"})

SeverityRank(sev) == CHOOSE i \in 1..4 : <<"critical", "high", "medium", "low">>[i] = sev

SeveritiesOf(v) == [i \in 1..Len(ItemsOf(v)) |-> Word(Get(ItemsOf(v)[i], "severity"))]

CountIn(seq, x) == Cardinality({i \in 1..Len(seq) : seq[i] = x})

\* all the items of all the sections, one after the other
RECURSIVE SectionItems(_, _)
SectionItems(sections, k) ==
    IF k > Len(sections) THEN <<>>
    ELSE sections[k].items \o SectionItems(sections, k + 1)

(***************************************************************************)
(* C14.  Structured rendering groups the improvements by severity: the     *)
(* sections come in the order critical, high, medium, low; a severity      *)
(* without improvement has no section; inside a section the improvements   *)
(* keep their original relative order; every improvement is in exactly     *)
(* one section.  Severities [low, critical, high, critical] give critical  *)
(* (2, in original order), high (1), low (1) and no medium section.        *)
(***************************************************************************)
C14_GroupedBySeverity ==
    \A d \in 1..Len(RenderedDocs) :
        LET sections == RenderedDocs[d].body.sections
            orig == ItemsOf(review)
        IN  /\ \A k \in 1..(Len(sections) - 1) :
                   SeverityRank(sections[k].severity) < SeverityRank(sections[k + 1].severity)
            /\ \A k \in 1..Len(sections) :
                   /\ sections[k].items # <<>>
                   /\ \A i \in 1..Len(sections[k].items) :
                          Word(Get(sections[k].items[i], "severity")) = sections[k].severity
                   /\ \A a, b \in 1..Len(sections[k].items) :
                          a < b => \E i, j \in 1..Len(orig) :
                                       /\ i < j
                                       /\ orig[i] = sections[k].items[a]
                                       /\ orig[j] = sections[k].items[b]
            /\ \A i \in 1..Len(orig) :
                   CountIn(SectionItems(sections, 1), orig[i]) = CountIn(orig, orig[i])
            /\ Len(SectionItems(sections, 1)) = Len(orig)
            /\ SeveritiesOf(review) = <<"low", "critical", "high", "critical">> =>
                   /\ [k \in 1..Len(sections) |-> sections[k].severity]
                          = <<"critical", "high", "low">>
                   /\ sections[1].items = <<orig[2], orig[4]>>
                   /\ sections[2].items = <<orig[3]>>
                   /\ sections[3].items = <<orig[1]>>

\* the example of the claim, rendered
C14_Witness ==
    /\ pc = "done"
    /\ RenderedDocs # <<>>
    /\ SeveritiesOf(review) = <<"low", "critical", "high", "critical">>

(***************************************************************************)
(* C15.  In structured rendering every enum value (severity, category,     *)
(* effort) maps to a known display label: rendering a record in which an   *)
(* improvement has a value outside its enum ends in a rendering error and  *)
(* never gives a document with a default or pass-through label.  (Stated   *)
(* as claimed; category and effort are looked up with dict.get and a       *)
(* default.)                                                               *)
(***************************************************************************)
C15_UnknownEnumIsRenderingError ==
    \A d \in 1..Len(RenderedDocs) :
        /\ EnumsValid(review)
        /\ \A k \in 1..Len(RenderedDocs[d].body.labels) :
               \A i \in 1..Len(RenderedDocs[d].body.labels[k]) :
                   LET label == RenderedDocs[d].body.labels[k][i]
                   IN  /\ label.category # "icon_pin"
                       /\ label.category \notin {"style"}
                       /\ label.effort \in {"~1h", "~4h", "~1d", "~1w"}

(***************************************************************************)
(* main, from its first line to its last: validation of the environment,   *)
(* collection or diff retrieval, budgeting, the Model Caller, publication. *)
(***************************************************************************)
\* required_vars of each main; review_standalone tests OPENAI_API_KEY only
RequiredVars(fl) ==
    CASE fl = "diff_review" ->
             {"GITHUB_TOKEN", "OPENAI_API_KEY", "GITHUB_REPOSITORY", "PR_NUMBER"}
      [] fl = "review_standalone" -> {"OPENAI_API_KEY"}
      [] OTHER -> {"GITHUB_TOKEN", "OPENAI_API_KEY", "GITHUB_REPOSITORY"}

\* missing = [v for v in required_vars if not os.getenv(v)]
Missing(fl, e) == {v \in RequiredVars(fl) : e[v] # "set"}

Environments == [EnvVars -> {"absent", "empty", "set"}]

\* a repository without matching files, and one with two files that the
\* second pattern matches again
MainGlobs == { <<<<>>, <<>>>>, <<<<"b.ts", "a.ts">>, <<"a.ts">>>> }

\* what get_pr_diff returns: a pull request without changes (nothing, or
\* white space only), or a diff
BlankDiffs == {"", "\n  \n"}
Diffs == BlankDiffs \cup {"--- a/a.ts\n+++ b/a.ts\n@@ -1 +1 @@"}

\* diff.strip()
StripDiff(d) == IF d \in BlankDiffs THEN "" ELSE d

InitMain ==
    /\ flow \in AllFlows
    /\ root \in RootsOf(flow)
    /\ pc = "start"
    /\ env \in Environments
    /\ NoCall
    /\ diff = "none"
    /\ globbed \in (IF flow = "diff_review" THEN {<<>>} ELSE MainGlobs)
    /\ files = <<>>
    /\ max_size = 400
    /\ parts = <<>>
    /\ output = ""
    /\ attempt = 1
    /\ calls = 0
    /\ sleeps = <<>>
    /\ outcomes = <<>>
    /\ raised = "none"
    /\ raw = <<>>
    /\ review = JNull
    /\ published = <<>>

\* ValidateEnvironment that reports the missing variables and goes on
ValidateEnvironmentWarnsOnly ==
    /\ pc = "start"
    /\ pc' = IF flow = "diff_review" THEN "fetch_diff" ELSE "collect"
    /\ UNCHANGED <<flow, callVars, budgetVars, retryVars, replyVars, mainVars>>

\* if missing: print(...); sys.exit(1)
ValidateEnvironment ==
    /\ pc = "start"
    /\ pc' = IF Missing(flow, env) # {} THEN "exit_1"
             ELSE IF flow = "diff_review" THEN "fetch_diff"
             ELSE "collect"
    /\ UNCHANGED <<flow, callVars, budgetVars, retryVars, replyVars, mainVars>>

\* laozhang_review.main: diff = get_pr_diff(...); if not diff.strip(): return
GetPrDiff ==
    /\ pc = "fetch_diff"
    /\ flow = "diff_review"
    /\ \E d \in Diffs :
           /\ diff' = d
           /\ pc' = IF StripDiff(d) = "" THEN "no_changes" ELSE "attempt"
           \* review = review_diff(client, diff)
           /\ IF StripDiff(d) = "" THEN UNCHANGED callVars ELSE EnterReviewCode(d)
    /\ UNCHANGED <<flow, budgetVars, retryVars, replyVars, env, root>>

\* review = review_code(client, content): the Model Caller is entered
CallReviewCode ==
    /\ pc = "formatted"
    /\ pc' = "attempt"
    /\ EnterReviewCode(output)
    /\ UNCHANGED <<flow, budgetVars, retryVars, replyVars, mainVars>>

NextMain ==
    \/ ValidateEnvironment
    \/ GetPrDiff
    \/ GatherCoreFiles
    \/ GatherSourceFiles
    \/ GatherFilesV3
    \/ GatherFilesStandalone
    \/ NextBudget
    \/ CallReviewCode
    \/ Next

SpecMain == InitMain /\ [][NextMain]_vars

(***************************************************************************)
(* Observations on an invocation.                                          *)
(***************************************************************************)
\* the publisher calls that go to GitHub
NetworkPublications ==
    SelectSeq(published, LAMBDA d : d.via \in {"create_issue", "post_comment"})

ModelCallerReturned ==
    /\ outcomes # <<>>
    /\ outcomes[Len(outcomes)].kind = "ok"
    /\ raised = "none"

(***************************************************************************)
(* C16.  If any required configuration value of a flow is absent or empty  *)
(* the invocation fails with a non-zero exit before any network activity:  *)
(* no model call, no diff retrieval, no issue or comment creation.         *)
(***************************************************************************)
C16_MissingConfigurationFailsFirst ==
    Missing(flow, env) # {} =>
        /\ pc \in {"start", "exit_1"}
        /\ calls = 0
        /\ outcomes = <<>>
        /\ diff = "none"
        /\ published = <<>>
        /\ files = <<>>

\* the diff flow stopped at validation because the API key is empty
C16_Witness ==
    /\ flow = "diff_review"
    /\ pc = "exit_1"
    /\ env["OPENAI_API_KEY"] = "empty"
    /\ env["GITHUB_TOKEN"] = "set"

(***************************************************************************)
(* C17.  In every flow the stages run once and in order per invocation:    *)
(* the publisher is invoked at most once and only after the Model Caller   *)
(* has returned a result (in structured mode: after the extraction         *)
(* succeeded); when the retry budget is exhausted nothing is published.    *)
(***************************************************************************)
C17_PublishOnceAfterResult ==
    /\ Len(published) <= 1
    /\ published # <<>> =>
           /\ pc = "done"
           /\ ModelCallerReturned
           /\ calls >= 1
           /\ flow \in StructuredFlows =>
                  /\ Extract(flow, raw).ok
                  /\ review = Extract(flow, raw).val
           /\ flow \notin StructuredFlows => review = JStr(raw)
           /\ flow # "diff_review" => (files # <<>> /\ output # "")
           /\ flow = "diff_review" => diff \notin {"none", ""}
    /\ pc = "raised" => published = <<>>
    /\ (Len(outcomes) = MAX_RETRIES /\ \A k \in 1..MAX_RETRIES : outcomes[k].kind # "ok")
           => published = <<>>
    /\ pc \in {"attempt", "returned", "raised", "done", "crashed"} =>
           IF flow = "diff_review" THEN diff \notin {"none", ""}
           ELSE files # <<>> /\ parts # <<>>

\* an issue was created after a retry
C17_Witness ==
    /\ pc = "done"
    /\ Len(NetworkPublications) = 1
    /\ calls = 2
    /\ flow = "core_review_v3"

(***************************************************************************)
(* Two runs over the same files and patterns differ in the order each      *)
(* root.glob yields its matches.                                           *)
(***************************************************************************)
PathSet(y) == {y[i] : i \in 1..Len(y)}

\* the glob results of another run: per pattern the same paths, any order
Orderings(y) ==
    { o \in [1..Len(y) -> PathSet(y)] : \A i, j \in 1..Len(y) : i # j => o[i] # o[j] }

Reorderings(g) ==
    { g2 \in [1..Len(g) -> UNION {Orderings(g[k]) : k \in 1..Len(g)}] :
        \A k \in 1..Len(g) : g2[k] \in Orderings(g[k]) }

\* collection followed by budgeting, as main chains them
FormattedInput(fl, g, max) == Join(FormatParts(fl, Gather(fl, root, g), max))

(***************************************************************************)
(* C18.  Determinism of the formatted input: for fixed readable files,     *)
(* fixed patterns and a fixed budget, two runs of collection followed by   *)
(* budgeting in which the glob yields the files in different orders give   *)
(* identical formatted strings, in each of the four file-review flows.     *)
(***************************************************************************)
C18_FormattedInputDeterministic ==
    Formatted =>
        \A g2 \in Reorderings(globbed) :
            /\ FormattedInput(flow, g2, max_size) = output
            /\ FormattedInput(flow, globbed, max_size) = output

\* a glob yielded b.ts before a.ts, both were embedded
C18_Witness ==
    /\ Formatted
    /\ flow = "core_review"
    /\ globbed[1] = <<"b.ts", "a.ts">>
    /\ Cardinality(Reorderings(globbed)) >= 2
    /\ NumBlocks = 2

(***************************************************************************)
(* Observations on the extractor's steps, written as what they find        *)
(* rather than how the scans find it.                                      *)
(***************************************************************************)
Least(S) == CHOOSE x \in S : \A y \in S : x <= y

\* the text after think-region removal and strip
Dethought(reply) == Strip(RemoveThink(reply, 1))

\* the text after the fence step
Unwrapped(reply) == UnwrapFence(Dethought(reply))

\* the text handed to json.loads
ParserInput(reply) == IsolateJson(reply)

BracesAt(t) == {i \in 1..Len(t) : t[i] = "{"}

\* number of "{" minus number of "}" in t[f..i]
DepthAt(t, f, i) ==
    Cardinality({j \in f..i : t[j] = "{"}) - Cardinality({j \in f..i : t[j] = "}"})

\* the positions from f on where a "}" brings the depth back to zero
ZeroDepthAt(t, f) == {i \in f..Len(t) : t[i] = "}" /\ DepthAt(t, f, i) = 0}

FencesAt(t) == {i \in 1..Len(t) : t[i] = FENCE}

JsonFencesAt(t) == {i \in FencesAt(t) : i + 1 <= Len(t) /\ t[i + 1] = "json"}

\* the interior of the block whose text starts at position start, when a
\* later fence closes it and something is in between; else the text itself
InteriorFrom(t, start) ==
    LET closers == {c \in FencesAt(t) : c >= start}
    IN  IF closers # {} /\ Least(closers) > start
        THEN Strip(SubSeq(t, start, Least(closers) - 1))
        ELSE t

(***************************************************************************)
(* C19.  Brace isolation: when the unwrapped text does not start with "{"  *)
(* everything before the first "{" is discarded; from that "{" a depth     *)
(* counter goes up on "{" and down on "}", the span ends at the first      *)
(* position where the depth is back to zero, and the text after it is      *)
(* discarded: leading prose free of braces and trailing prose do not       *)
(* reach the JSON parser.  (Without a "{" the text is parsed as it is;     *)
(* when the depth never gets back to zero the text from the first "{" on   *)
(* is parsed.)                                                             *)
(***************************************************************************)
C19_BraceIsolation ==
    pc \in {"returned", "extract_error"} =>
        LET u == Unwrapped(raw)
            parsed == CutAtMatchingBrace(SeekBrace(u))
        IN  /\ parsed = ParserInput(raw)
            /\ IF BracesAt(u) = {} THEN parsed = u
               ELSE LET f == Least(BracesAt(u))
                        zeros == ZeroDepthAt(u, f)
                    IN  IF zeros = {}
                        THEN parsed = SubSeq(u, f, Len(u))
                        ELSE /\ parsed = SubSeq(u, f, Least(zeros))
                             /\ Head(parsed) = "{"
                             /\ parsed[Len(parsed)] = "}"
                             /\ DepthAt(parsed, 1, Len(parsed)) = 0
            /\ LET r == json_loads(parsed)
               IN  IF r.ok THEN pc # "extract_error" /\ review = r.val
                   ELSE pc = "extract_error"

\* a review between leading and trailing prose was isolated and returned
C19_Witness ==
    /\ pc = "returned"
    /\ Len(raw) > 4
    /\ raw[1] = "Here"
    /\ raw[Len(raw)] = "Done"
    /\ IsObj(review)
    /\ Len(ParserInput(raw)) = Len(raw) - 4

(***************************************************************************)
(* C20.  Fence selection, applied after think-region removal: if a fenced  *)
(* block tagged json is present its interior is taken, even when an        *)
(* untagged fenced block comes earlier in the text; otherwise, if any      *)
(* fenced block is present, the interior of the first one is taken;        *)
(* otherwise the whole remaining text is used.                             *)
(***************************************************************************)
C20_FenceSelection ==
    pc \in {"returned", "extract_error"} =>
        LET t == Dethought(raw)
        IN  /\ Unwrapped(raw) =
                   IF JsonFencesAt(t) # {}
                   THEN InteriorFrom(t, Least(JsonFencesAt(t)) + 2)
                   ELSE IF FencesAt(t) # {}
                   THEN InteriorFrom(t, Least(FencesAt(t)) + 1)
                   ELSE t
            /\ raw = UntaggedBlock \o <<WS>> \o JsonBlock =>
                   (pc # "extract_error" /\ review = JArr(<<>>))
            /\ raw = UntaggedBlock \o <<WS, "prose">> =>
                   (pc # "extract_error" /\ review = JObj(<<>>))
            /\ raw = ThinkBlock \o <<WS>> \o UntaggedBlock =>
                   (pc # "extract_error" /\ review = JObj(<<>>))

\* the json block was taken although an untagged block comes first
C20_Witness ==
    /\ pc = "returned"
    /\ raw = UntaggedBlock \o <<WS>> \o JsonBlock
    /\ review = JArr(<<>>)

(***************************************************************************)
(* The format functions as functions of their argument: one call of a      *)
(* format function on a list of files in any order.  (The scripts' main    *)
(* functions hand the annotated format functions the sorted list that      *)
(* gather_files returns; here the list is the caller's.)                   *)
(***************************************************************************)
InitFormatAny ==
    /\ env = StageEnv
    /\ root = RelativeRoot
    /\ NoCall
    /\ diff = "none"
    /\ flow \in BudgetFlows
    /\ pc = "format"
    /\ globbed = <<>>
    /\ files \in FileLists
    /\ max_size \in BoundaryBudgets(flow, files)
    /\ parts = <<>>
    /\ output = ""
    /\ attempt = 1
    /\ calls = 0
    /\ sleeps = <<>>
    /\ outcomes = <<>>
    /\ raised = "none"
    /\ raw = <<>>
    /\ review = [t |-> "null"]
    /\ published = <<>>

NextFormatAny == NextBudget

SpecFormatAny == InitFormatAny /\ [][NextFormatAny]_vars

C22_PromptImmutable ==
    /\ Len(sent) = calls
    /\ \A k \in 1..Len(sent) :
           /\ sent[k] = REVIEW_PROMPT_format(
                            Argument(IF flow = "diff_review" THEN diff ELSE output))
           /\ sent[k] = sent[1]

\* a retry of core_review_v3 after a reply that could not be parsed, made
\* when `content` no longer holds the argument
C22_Witness ==
    /\ flow = "core_review_v3"
    /\ Len(sent) >= 2
    /\ outcomes[1].kind = "extract_error"
    /\ call_content.src = "reply"
    /\ output # ""

(***************************************************************************)
(* C23.  The output of a Content Budgeter holds the truncation marker if   *)
(* and only if the block of at least one file was left out; the marker     *)
(* then occurs once and is the last element.  When every file fits, the    *)
(* output is the blocks of all the files, after the manifest in annotated  *)
(* mode, and no marker.                                                    *)
(***************************************************************************)
C23_MarkerIffOmitted ==
    Formatted =>
        LET n == Len(files)
            k == NumBlocks
            markers == PartsOfKind("marker")
            lead == IF flow \in AnnotatedFlows THEN 1 ELSE 0
        IN  /\ Len(markers) <= 1
            /\ Len(markers) = 1 <=> k < n
            /\ Len(markers) = 1 =>
                   /\ parts[Len(parts)].kind = "marker"
                   /\ Len(parts) = lead + k + 1
            /\ \A i \in 1..k :
                   /\ parts[lead + i].kind = "block"
                   /\ parts[lead + i].text = BlockOf(flow, files, i)
            /\ lead = 1 => parts[1].kind = "manifest"
            /\ k = n => Len(parts) = lead + n
            /\ output = Join(parts)

\* an annotated call that embedded a file and left out two
C23_Witness ==
    /\ Formatted
    /\ flow \in AnnotatedFlows
    /\ Len(PartsOfKind("marker")) = 1
    /\ NumBlocks >= 1
    /\ Len(files) - NumBlocks >= 2

\* the relative paths a collector returns
CollectedPaths(fs) == {fs[i].path : i \in 1..Len(fs)}

(***************************************************************************)
(* C24.  Whether a file is collected depends only on its path relative to  *)
(* the root: the same relative tree under another root that main can hand  *)
(* over, one whose own directory names differ, gives the same set of       *)
(* collected relative paths.  (Stated as claimed; the exclusion test looks *)
(* at all the parts of the path glob yields, the root's own included, and  *)
(* review_standalone hands over an absolute root.)                         *)
(***************************************************************************)
C24_CollectionIgnoresRootName ==
    Collected =>
        \A r \in RootsOf(flow) :
            CollectedPaths(Gather(flow, r, globbed)) = CollectedPaths(files)

(***************************************************************************)
(* C25.  When the collector returns no file, or in diff review the diff    *)
(* retrieved is blank, the invocation ends there: no transport call is     *)
(* made and no issue or comment is created or review printed.              *)
(***************************************************************************)
C25_NothingToReviewEndsQuietly ==
    /\ (flow # "diff_review" /\ pc \notin {"start", "exit_1", "collect"} /\ files = <<>>) =>
           pc = "no_files"
    /\ (flow = "diff_review" /\ diff # "none" /\ StripDiff(diff) = "") =>
           pc = "no_changes"
    /\ pc \in {"no_files", "no_changes"} =>
           /\ calls = 0
           /\ sent = <<>>
           /\ outcomes = <<>>
           /\ published = <<>>
           /\ output = ""

\* a checkout in which no pattern matches a file: main stopped after the
\* collector
C25_Witness ==
    /\ pc = "no_files"
    /\ flow \in FreeTextFlows \cup {"core_review_v3"}
    /\ Missing(flow, env) = {}
    /\ files = <<>>
    /\ calls = 0

====
